---- MODULE Spec2Model ----
(***************************************************************************)
(* State-machine model of the Alazar acquisition controllers of            *)
(* pytopo/rf/alazar_acquisition.py (BaseAcqCtl and its eight working       *)
(* subclasses).                                                            *)
(*                                                                         *)
(* numpy arrays are records [shape, flat]: flat holds the elements in C    *)
(* (row-major) order, 1-based.  Unsigned integer arrays keep their width   *)
(* (arithmetic is reduced modulo 2^width).  Floating-point arrays are      *)
(* exact rationals [shape, flat, den]: element i is flat[i] / den.         *)
(***************************************************************************)
EXTENDS Integers, Sequences, FiniteSets, TLC

VARIABLES
    phase,              \* where the controller is in its life cycle
    ctl,                \* fields set by __init__
    params,             \* instrument parameters read through the getters
    buffer_shape,       \* self.buffer_shape
    demod,              \* self.period, self.demod_samples (set by data_shape)
    data,               \* self.data, the accumulator
    result,             \* what post_acquire returned (or that it raised)
    trigger_active,     \* state of the external trigger collaborator
    events,             \* calls observed during the current acquisition
    delivered,          \* raw buffers the driver delivered in this acquisition
    acq_time,           \* the acq_time parameter
    acquisitionkwargs,  \* self.acquisitionkwargs
    last_update,        \* arguments of the latest update_acquisitionkwargs
    t2s_call,           \* argument and value of the latest time2samples call
    rerun               \* the controller ran an acquisition before this one

vars == <<phase, ctl, params, buffer_shape, demod, data, result,
          trigger_active, events, delivered, acq_time, acquisitionkwargs,
          last_update, t2s_call, rerun>>

(***************************************************************************)
(* Bounds of the model.                                                    *)
(***************************************************************************)
MaxBuffers == 2
MaxRecords == 2
MaxSamples == 4
MaxTime == 30
MaxOvfBuffers == 258

(***************************************************************************)
(* Program constants.                                                      *)
(***************************************************************************)
MINSAMPLES == 384
number_of_channels == 2

\* Python's None, for the optional integer values of the model
None == 0 - 1

Variants == {"Raw", "Demod", "AvgBuf", "AvgRec",
             "AvgDemod", "AvgRecDemod", "AvgIQ", "AvgRecIQ"}
DemodVariants == {"Demod", "AvgDemod", "AvgRecDemod", "AvgIQ", "AvgRecIQ"}
AvgBufVariants == {"AvgBuf", "AvgDemod", "AvgIQ"}
AvgRecVariants == {"AvgRec", "AvgRecDemod", "AvgRecIQ"}

(***************************************************************************)
(* Arithmetic helpers.                                                     *)
(***************************************************************************)
Max(a, b) == IF a >= b THEN a ELSE b

RECURSIVE Prod(_)
Prod(s) == IF s = <<>> THEN 1 ELSE Head(s) * Prod(Tail(s))

RECURSIVE SumFromTo(_, _, _)
SumFromTo(f, lo, hi) == IF lo > hi THEN 0 ELSE f[lo] + SumFromTo(f, lo + 1, hi)

\* product of the axis lengths after axis ax (1-based): the C-order stride
Stride(shape, ax) == Prod(SubSeq(shape, ax + 1, Len(shape)))

\* 0-based index along axis ax of the element at 1-based flat position i
AxisIndex(shape, ax, i) == ((i - 1) \div Stride(shape, ax)) % shape[ax]

\* x reduced to an unsigned integer of width bits.  Every value of the model
\* stays below 2^31, where reduction modulo 2^32 changes nothing.
Wrap(x, width) == IF width >= 32 THEN x ELSE x % (2 ^ width)

Zeros(shape) == [shape |-> shape, flat |-> [i \in 1..Prod(shape) |-> 0]]

NoArray == [shape |-> <<0>>, flat |-> <<>>]
NoResult == [status |-> "none", shape |-> <<0>>, flat |-> <<>>,
             imag |-> <<>>, den |-> 1]

(***************************************************************************)
(* numpy operations the controllers use.                                   *)
(***************************************************************************)
\* ndarray.reshape with one inferred (-1) axis at position ax of newshape:
\* the inferred length, or None where numpy raises ValueError.  numpy cannot
\* infer the axis when the other axes multiply to 0, whatever the size is.
InferAxis(size, newshape, ax) ==
    LET known == Prod([newshape EXCEPT ![ax] = 1])
    IN IF known = 0 THEN None
       ELSE IF size % known # 0 THEN None
       ELSE size \div known

\* a.mean(axis=ax) of a rational array: the sums, over a denominator
\* multiplied by the axis length
MeanAxis(a, ax) ==
    LET st == Stride(a.shape, ax)
        n == a.shape[ax]
        shp == SubSeq(a.shape, 1, ax - 1) \o SubSeq(a.shape, ax + 1, Len(a.shape))
        SumAt(f, i) ==
            LET base == ((i - 1) \div st) * (n * st) + ((i - 1) % st) + 1
            IN SumFromTo([j \in 0..(n - 1) |-> f[base + j * st]], 0, n - 1)
    IN [status |-> "ok",
        shape |-> shp,
        flat |-> [i \in 1..Prod(shp) |-> SumAt(a.flat, i)],
        imag |-> [i \in 1..Prod(shp) |-> SumAt(a.imag, i)],
        den |-> a.den * n]

(***************************************************************************)
(* The demodulation basis.  demod_frq divides sample_rate into 1, 2 or 4   *)
(* samples per period, so that cos and sin take the exact values 1, 0, -1. *)
(***************************************************************************)
DemodFrqs(sample_rate) ==
    {f \in 1..sample_rate : sample_rate % f = 0 /\ (4 * f) % sample_rate = 0}

\* n-th entry of cosarr: cos(2 pi demod_frq tvals[n]), tvals[n] = n / sample_rate
cosarr(p, n) ==
    LET q == ((4 * p.demod_frq * n) \div p.sample_rate) % 4
    IN CASE q = 0 -> 1 [] q = 1 -> 0 [] q = 2 -> 0 - 1 [] OTHER -> 0

sinarr(p, n) ==
    LET q == ((4 * p.demod_frq * n) \div p.sample_rate) % 4
    IN CASE q = 0 -> 0 [] q = 1 -> 1 [] q = 2 -> 0 [] OTHER -> 0 - 1

\* self.period and self.demod_samples as data_shape sets them
Period(p) == (2 * p.sample_rate + p.demod_frq) \div (2 * p.demod_frq)
DemodSamples(p) == p.samples_per_record \div Period(p)

(***************************************************************************)
(* Fields fixed by the constructors.                                       *)
(***************************************************************************)
SupportedBits == {8, 12}

\* width in bits of the unsigned dtype of the raw buffers (np.uint8, np.uint16)
RawWidth(nbits) == IF nbits = 8 THEN 8 ELSE 16

\* width in bits of self._datadtype, the dtype of the accumulator
DataWidth(variant, nbits) ==
    IF variant \in AvgBufVariants \cup AvgRecVariants
    THEN (IF nbits = 8 THEN 16 ELSE 32)
    ELSE (IF nbits = 8 THEN 8 ELSE 16)

\* a constructor that accepts every bit depth
ConstructOutcome_NoRaise(bits) == "idle"

\* how BaseAcqCtl.__init__ ends for a card reporting bits per sample
ConstructOutcome(bits) == IF bits \in SupportedBits THEN "idle" ELSE "ctor_failed"

AverageBuffers(variant) == variant \in AvgBufVariants

BufferOrder(model) == IF model = "ATS9870" THEN "bcrs" ELSE "brsc"

DefaultCtl ==
    [variant |-> "Raw", nbits |-> 12, model |-> "ATS9360",
     buffer_order |-> "brsc", average_buffers |-> FALSE,
     datawidth |-> 16, trigger_func |-> FALSE,
     do_allocate_data |-> TRUE]

(***************************************************************************)
(* Buffer geometry.                                                        *)
(***************************************************************************)
\* the values of self._buffer_order pre_start_capture accepts
KnownOrders == {"brsc", "bcrs"}

BufferShape(order, p) ==
    IF order = "brsc"
    THEN <<p.records_per_buffer, p.samples_per_record, number_of_channels>>
    ELSE <<number_of_channels, p.records_per_buffer, p.samples_per_record>>

\* handle_buffer giving the raw buffer its logical shape without transposing
LogicalView_NoTranspose(buf, order, bshape) ==
    IF order = "bcrs"
    THEN [shape |-> <<bshape[2], bshape[3], bshape[1]>>, flat |-> buf]
    ELSE [shape |-> bshape, flat |-> buf]

\* the (records, samples, channels) array handle_buffer passes on: the raw
\* buffer given shape bshape, transposed by (1, 2, 0) for 'bcrs'
LogicalView(buf, order, bshape) ==
    IF order = "bcrs"
    THEN LET C == bshape[1]
             R == bshape[2]
             S == bshape[3]
             shp == <<R, S, C>>
         IN [shape |-> shp,
             flat |-> [i \in 1..Prod(shp) |->
                         buf[(AxisIndex(shp, 3, i) * R + AxisIndex(shp, 1, i)) * S
                             + AxisIndex(shp, 2, i) + 1]]]
    ELSE [shape |-> bshape, flat |-> buf]

(***************************************************************************)
(* data_shape, data_dims and the accumulator pre_start_capture leaves.     *)
(***************************************************************************)
DataShape(variant, p) ==
    LET B == p.buffers_per_acquisition
        R == p.records_per_buffer
        S == p.samples_per_record
        D == DemodSamples(p)
        C == number_of_channels
    IN CASE variant = "Raw" -> <<B, R, S, C>>
         [] variant = "Demod" -> <<B, R, D, C>>
         [] variant = "AvgBuf" -> <<R, S, C>>
         [] variant = "AvgRec" -> <<B, S, C>>
         [] variant = "AvgDemod" -> <<R, D, C>>
         [] variant = "AvgRecDemod" -> <<R, D, C>>
         [] variant = "AvgIQ" -> <<R, C>>
         [] OTHER -> <<B, C>>

DataDims(variant) ==
    CASE variant = "Raw" -> <<"buffers", "records", "samples", "channels">>
      [] variant = "Demod" -> <<"buffers", "records", "IF_periods", "channels">>
      [] variant = "AvgBuf" -> <<"records", "samples", "channels">>
      [] variant = "AvgRec" -> <<"buffers", "samples", "channels">>
      [] variant = "AvgDemod" -> <<"records", "IF_periods", "channels">>
      [] variant = "AvgRecDemod" -> <<"buffers", "IF_periods", "channels">>
      [] variant = "AvgIQ" -> <<"records", "channels">>
      [] OTHER -> <<"buffers", "channels">>

\* shape of self.data once pre_start_capture has returned
AccumulatorShape(variant, p) ==
    LET B == p.buffers_per_acquisition
        R == p.records_per_buffer
        S == p.samples_per_record
        C == number_of_channels
    IN CASE variant = "Demod" -> <<B, R, S, C>>
         [] variant \in {"AvgDemod", "AvgIQ"} -> <<R, S, C>>
         [] variant \in {"AvgRecDemod", "AvgRecIQ"} -> <<B, S, C>>
         [] OTHER -> DataShape(variant, p)

\* pre_start_capture allocating the accumulator only where there is none yet
AllocatedData_KeepData(c, p, d) ==
    IF d = NoArray THEN Zeros(AccumulatorShape(c.variant, p)) ELSE d

\* self.data once pre_start_capture has returned, d being self.data before:
\* allocate_data runs only if do_allocate_data is set; the demodulating
\* variants then allocate their accumulator themselves, flag or no flag
AllocatedData(c, p, d) ==
    IF c.variant \in DemodVariants \/ c.do_allocate_data
    THEN Zeros(AccumulatorShape(c.variant, p))
    ELSE d

\* self.period and self.demod_samples once pre_start_capture has returned:
\* data_shape, which sets them, is called by allocate_data only
DemodAfter(c, p, dm) ==
    IF c.variant \in DemodVariants /\ c.do_allocate_data
    THEN [period |-> Period(p), demod_samples |-> DemodSamples(p)]
    ELSE dm

(***************************************************************************)
(* process_buffer and handle_buffer.                                       *)
(***************************************************************************)
\* the processed buffer: element i is flat[i] / den; float tells np.mean's
\* float64 from the raw unsigned integers
ProcessBuffer(variant, view) ==
    IF variant \in AvgRecVariants
    THEN LET m == MeanAxis([shape |-> view.shape, flat |-> view.flat,
                            imag |-> view.flat, den |-> 1], 1)
         IN [shape |-> m.shape, flat |-> m.flat, den |-> m.den, float |-> TRUE]
    ELSE [shape |-> view.shape, flat |-> view.flat, den |-> 1, float |-> FALSE]

\* self.data += pb: an in-place add in the accumulator's dtype, pb broadcast
\* over the leading axis
InPlaceAdd(d, pb, width) ==
    [d EXCEPT !.flat = [i \in 1..Len(d.flat) |->
        Wrap(d.flat[i] + pb.flat[((i - 1) % Len(pb.flat)) + 1], width)]]

\* handle_buffer adding the processed buffer to slot bn
StoreAt_Add(d, pb, bn, width) ==
    LET n == Len(pb.flat)
    IN [d EXCEPT !.flat = [i \in 1..Len(d.flat) |->
        IF (i - 1) \div n = bn
        THEN Wrap(d.flat[i] + (pb.flat[((i - 1) % n) + 1] \div pb.den), width)
        ELSE d.flat[i]]]

\* self.data[bn] = pb: the values cast to the accumulator's dtype
StoreAt(d, pb, bn, width) ==
    LET n == Len(pb.flat)
    IN [d EXCEPT !.flat = [i \in 1..Len(d.flat) |->
        IF (i - 1) \div n = bn
        THEN Wrap(pb.flat[((i - 1) % n) + 1] \div pb.den, width)
        ELSE d.flat[i]]]

\* handle_buffer adding the raw buffer into the accumulator before the shape
\* of the buffer is checked
HandleBufferOp_AddBeforeCheck(c, bshape, d, buf, bn) ==
    IF Len(buf) # Prod(bshape)
    THEN [ok |-> FALSE, error |-> "ValueError",
          data |-> InPlaceAdd(d, [flat |-> buf], c.datawidth)]
    ELSE LET pb == ProcessBuffer(c.variant, LogicalView(buf, c.buffer_order, bshape))
         IN IF bn = None \/ c.average_buffers
            THEN [ok |-> ~pb.float, error |-> IF pb.float THEN "TypeError" ELSE "none",
                  data |-> IF pb.float THEN d ELSE InPlaceAdd(d, pb, c.datawidth)]
            ELSE [ok |-> TRUE, error |-> "none",
                  data |-> StoreAt(d, pb, bn, c.datawidth)]

\* handle_buffer(buf, bn): [ok, error, data]; ok is FALSE where the call
\* raises, error names the exception and data is self.data after the call.
\* data.shape = self.buffer_shape raises for a buffer of another size;
\* self.data += a float64 mean raises numpy's same-kind casting TypeError,
\* and so does any update of a self.data that is still None.
HandleBufferOp(c, bshape, d, buf, bn) ==
    IF Len(buf) # Prod(bshape)
    THEN [ok |-> FALSE, error |-> "ValueError", data |-> d]
    ELSE IF d = NoArray
    THEN [ok |-> FALSE, error |-> "TypeError", data |-> d]
    ELSE LET pb == ProcessBuffer(c.variant, LogicalView(buf, c.buffer_order, bshape))
         IN IF bn = None \/ c.average_buffers
            THEN IF pb.float
                 THEN [ok |-> FALSE, error |-> "TypeError", data |-> d]
                 ELSE [ok |-> TRUE, error |-> "none",
                       data |-> InPlaceAdd(d, pb, c.datawidth)]
            ELSE IF bn >= d.shape[1]
                 THEN [ok |-> FALSE, error |-> "IndexError", data |-> d]
                 ELSE [ok |-> TRUE, error |-> "none",
                       data |-> StoreAt(d, pb, bn, c.datawidth)]

(***************************************************************************)
(* post_acquire.                                                           *)
(***************************************************************************)
\* np.right_shift(data, 4) for 12-bit cards, then
\* data.astype(np.float32) / 2**nbits - 0.5, as (2 v - 2^nbits) / 2^(nbits+1)
Normalize(c, d) ==
    LET shift == IF c.nbits = 12 THEN 16 ELSE 1
    IN [status |-> "ok",
        shape |-> d.shape,
        flat |-> [i \in 1..Len(d.flat) |-> 2 * (d.flat[i] \div shift) - 2 ^ c.nbits],
        imag |-> [i \in 1..Len(d.flat) |-> 0],
        den |-> 2 ^ (c.nbits + 1)]

RaisedResult == [status |-> "error", shape |-> <<0>>, flat |-> <<>>,
                 imag |-> <<>>, den |-> 1]

\* (data * 2 * cosarr)[..., :demod_samples*period, :]
\*     .reshape(lead, demod_samples, period, channels).mean(axis=-2)
\* and the same with sinarr, combined as real + 1j * imag.  lead is the
\* leading part of the new shape, holding the inferred (-1) axis at infer.
\* The slice keeps the first cut samples of every row; the reshape reads the
\* slice in C order, so that element pos of the reshaped array is element
\* Src(pos) of x; the mean runs over the period axis.
Demodulate(x, p, dm, lead, infer) ==
    LET sax == Len(x.shape) - 1
        S == x.shape[sax]
        C == x.shape[sax + 1]
        D == dm.demod_samples
        P == dm.period
        cut == IF D * P < S THEN D * P ELSE S
        rows == Prod(SubSeq(x.shape, 1, sax - 1))
        newshape == lead \o <<D, P, number_of_channels>>
        inferred == InferAxis(rows * cut * C, newshape, infer)
        Src(pos) ==
            ((pos \div (cut * C)) * S + ((pos \div C) % cut)) * C + (pos % C) + 1
        Re(i) == 2 * x.flat[i] * cosarr(p, AxisIndex(x.shape, sax, i))
        Im(i) == 2 * x.flat[i] * sinarr(p, AxisIndex(x.shape, sax, i))
    IN IF inferred = None
       THEN RaisedResult
       ELSE LET shp == [newshape EXCEPT ![infer] = inferred]
                out == SubSeq(shp, 1, Len(shp) - 2) \o <<number_of_channels>>
                Pos(k, j) == (((k - 1) \div C) * P + j) * C + ((k - 1) % C)
            IN [status |-> "ok",
                shape |-> out,
                flat |-> [k \in 1..Prod(out) |->
                            SumFromTo([j \in 0..(P - 1) |-> Re(Src(Pos(k, j)))], 0, P - 1)],
                imag |-> [k \in 1..Prod(out) |->
                            SumFromTo([j \in 0..(P - 1) |-> Im(Src(Pos(k, j)))], 0, P - 1)],
                den |-> x.den * P]

\* .mean(axis=1) of the IQ variants
MeanOverPeriods(x) == IF x.status # "ok" THEN x ELSE MeanAxis(x, 2)

\* post_acquire without the call of trigger_func(False)
PostAcquireCalls_NoTriggerOff(c) == <<"finalize">>

\* the calls post_acquire makes, in order: BaseAcqCtl.post_acquire runs first
\* in every variant and calls trigger_func(False) if one is set, then the
\* variant normalises and demodulates
PostAcquireCalls(c) ==
    (IF c.trigger_func THEN <<"trigger_off">> ELSE <<>>) \o <<"finalize">>

\* the calls pre_acquire makes
PreAcquireCalls(c) == IF c.trigger_func THEN <<"trigger_on">> ELSE <<>>

\* the state of the trigger after the calls
TriggerAfter(active, calls) ==
    IF \E i \in 1..Len(calls) : calls[i] = "trigger_on" THEN TRUE
    ELSE IF \E i \in 1..Len(calls) : calls[i] = "trigger_off" THEN FALSE
    ELSE active

\* the value post_acquire returns for the accumulator d; it raises on a
\* self.data that is still None and, in the demodulating variants, when
\* data_shape never set self.period and the basis arrays
PostAcquireOp(c, p, dm, d) ==
    LET norm == Normalize(c, d)
    IN CASE d = NoArray -> RaisedResult
         [] c.variant \in DemodVariants /\ dm.period = 0 -> RaisedResult
         [] c.variant \in {"Raw", "AvgBuf", "AvgRec"} -> norm
         [] c.variant = "Demod" ->
                Demodulate(norm, p, dm, <<p.buffers_per_acquisition, None>>, 2)
         [] c.variant \in {"AvgDemod", "AvgRecDemod"} ->
                Demodulate(norm, p, dm, <<None>>, 1)
         [] OTHER -> MeanOverPeriods(Demodulate(norm, p, dm, <<None>>, 1))

(***************************************************************************)
(* time2samples.                                                           *)
(***************************************************************************)
\* time2samples without the step that adds 128 after rounding down
time2samples_RoundDown(t, sample_rate) ==
    Max(MINSAMPLES, ((t * sample_rate) \div 128) * 128)

\* t is a duration in ticks and sample_rate a number of samples per tick, so
\* that t * sample_rate is an integer; nsamples / sample_rate < t is compared
\* exactly, as nsamples < t * sample_rate
time2samples(t, sample_rate) ==
    LET nsamples_ideal == t * sample_rate
        nsamples == (nsamples_ideal \div 128) * 128
        bumped == IF nsamples < t * sample_rate THEN nsamples + 128 ELSE nsamples
    IN Max(MINSAMPLES, bumped)

\* update_acquisitionkwargs(**kwargs): kw.samples_per_record is None when the
\* call passes none; an entry of None in the dict is one never stored
UpdateKwargsOp(kwargs, at, sample_rate, kw) ==
    LET derived == IF at # None /\ at # 0 /\ kw.samples_per_record = None
                   THEN [kw EXCEPT !.samples_per_record = time2samples(at, sample_rate)]
                   ELSE kw
    IN [k \in DOMAIN kwargs |-> IF derived[k] # None THEN derived[k] ELSE kwargs[k]]

(***************************************************************************)
(* The driver's side: the raw buffers it delivers.                         *)
(***************************************************************************)
Patterns == {"max", "ramp"}

RawBuffer(pattern, n, nbits) ==
    LET w == RawWidth(nbits)
    IN IF pattern = "max"
       THEN [i \in 1..n |-> 2 ^ w - 1]
       ELSE [i \in 1..n |-> (i * (IF w = 8 THEN 17 ELSE 4369)) % (2 ^ w)]

(***************************************************************************)
(* Initial state: no controller constructed yet.                           *)
(***************************************************************************)
DefaultParams ==
    [buffers_per_acquisition |-> 1, records_per_buffer |-> 1,
     samples_per_record |-> 1, sample_rate |-> 4, demod_frq |-> 4,
     numbered |-> TRUE]

NoKwargs == [samples_per_record |-> None, records_per_buffer |-> None]

NoUpdate == [called |-> FALSE, kw |-> NoKwargs, acq_time |-> None]

NoCall == [called |-> FALSE, t |-> 0, nsamples |-> 0]

Init ==
    /\ phase = "none"
    /\ ctl = DefaultCtl
    /\ params = DefaultParams
    /\ buffer_shape = <<>>
    /\ demod = [period |-> 0, demod_samples |-> 0]
    /\ data = NoArray
    /\ result = NoResult
    /\ trigger_active = FALSE
    /\ events = <<>>
    /\ delivered = <<>>
    /\ acq_time = None
    /\ acquisitionkwargs = NoKwargs
    /\ last_update = NoUpdate
    /\ t2s_call = NoCall
    /\ rerun = FALSE

(***************************************************************************)
(* Actions.                                                                *)
(***************************************************************************)
\* a controller class is instantiated for a card reporting bits and model
Construct(v, bits, model) ==
    /\ phase = "none"
    /\ ctl' = [variant |-> v, nbits |-> bits, model |-> model,
               buffer_order |-> BufferOrder(model),
               average_buffers |-> AverageBuffers(v),
               datawidth |-> DataWidth(v, bits),
               trigger_func |-> FALSE,
               do_allocate_data |-> TRUE]
    /\ phase' = ConstructOutcome(bits)
    /\ UNCHANGED <<params, buffer_shape, demod, data, result, trigger_active,
                   events, delivered, acq_time, acquisitionkwargs, last_update, t2s_call, rerun>>

\* the user assigns ctl.trigger_func
SetTriggerFunc(b) ==
    /\ phase = "idle"
    /\ ctl.trigger_func # b
    /\ ctl' = [ctl EXCEPT !.trigger_func = b]
    /\ UNCHANGED <<phase, params, buffer_shape, demod, data, result,
                   trigger_active, events, delivered, acq_time,
                   acquisitionkwargs, last_update, t2s_call, rerun>>

\* the user assigns ctl._buffer_order
SetBufferOrder(o) ==
    /\ phase = "idle"
    /\ ctl.buffer_order # o
    /\ ctl' = [ctl EXCEPT !.buffer_order = o]
    /\ UNCHANGED <<phase, params, buffer_shape, demod, data, result,
                   trigger_active, events, delivered, acq_time,
                   acquisitionkwargs, last_update, t2s_call, rerun>>

\* the user assigns ctl.do_allocate_data, between acquisitions
SetDoAllocateData(b) ==
    /\ phase \in {"idle", "done", "failed"}
    /\ ctl.do_allocate_data # b
    /\ ctl' = [ctl EXCEPT !.do_allocate_data = b]
    /\ UNCHANGED <<phase, params, buffer_shape, demod, data, result,
                   trigger_active, events, delivered, acq_time,
                   acquisitionkwargs, last_update, t2s_call, rerun>>

\* pre_start_capture, with the parameters the card holds for this acquisition:
\* p for a controller's first acquisition, the same ones for its second (a
\* controller is followed through two acquisitions).  An unknown buffer
\* order raises before anything is assigned.
PreStartCapture(p) ==
    /\ \/ phase = "idle"
       \/ phase \in {"done", "failed"} /\ ~rerun /\ p = params
    /\ params' = p
    /\ rerun' = (phase # "idle")
    /\ result' = NoResult
    /\ delivered' = <<>>
    /\ IF ctl.buffer_order \in KnownOrders
       THEN /\ buffer_shape' = BufferShape(ctl.buffer_order, p)
            /\ demod' = DemodAfter(ctl, p, demod)
            /\ data' = AllocatedData(ctl, p, data)
            /\ events' = <<>>
            /\ phase' = "configured"
       ELSE /\ events' = <<"ValueError">>
            /\ phase' = "failed"
            /\ UNCHANGED <<buffer_shape, demod, data>>
    /\ UNCHANGED <<ctl, trigger_active, acq_time, acquisitionkwargs, last_update, t2s_call>>

PreAcquire ==
    /\ phase = "configured"
    /\ phase' = "acquiring"
    /\ trigger_active' = TriggerAfter(trigger_active, PreAcquireCalls(ctl))
    /\ events' = events \o PreAcquireCalls(ctl)
    /\ UNCHANGED <<ctl, params, buffer_shape, demod, data, result, delivered,
                   acq_time, acquisitionkwargs, last_update, t2s_call, rerun>>

\* the driver's callback with the next buffer; a call that raises ends the
\* acquisition
HandleBuffer(buf) ==
    /\ phase = "acquiring"
    /\ Len(delivered) < params.buffers_per_acquisition
    /\ LET bn == IF params.numbered THEN Len(delivered) ELSE None
           r == HandleBufferOp(ctl, buffer_shape, data, buf, bn)
       IN /\ data' = r.data
          /\ phase' = IF r.ok THEN "acquiring" ELSE "failed"
          /\ delivered' = IF r.ok THEN Append(delivered, buf) ELSE delivered
          /\ events' = Append(events, IF r.ok THEN "buffer" ELSE r.error)
    /\ UNCHANGED <<ctl, params, buffer_shape, demod, result, trigger_active,
                   acq_time, acquisitionkwargs, last_update, t2s_call, rerun>>

PostAcquire ==
    /\ phase = "acquiring"
    /\ LET r == PostAcquireOp(ctl, params, demod, data)
       IN /\ result' = r
          /\ phase' = IF r.status = "ok" THEN "done" ELSE "failed"
          /\ events' = events \o PostAcquireCalls(ctl)
    /\ trigger_active' = TriggerAfter(trigger_active, PostAcquireCalls(ctl))
    /\ UNCHANGED <<ctl, params, buffer_shape, demod, data, delivered,
                   acq_time, acquisitionkwargs, last_update, t2s_call, rerun>>

(***************************************************************************)
(* Spec: a controller and its first acquisition, over small parameters.    *)
(***************************************************************************)
CardBits == {8, 10, 12}
CardModels == {"ATS9360", "ATS9870"}

Numberings(v) == IF AverageBuffers(v) THEN {TRUE} ELSE BOOLEAN

AcquisitionParams(v) ==
    {[buffers_per_acquisition |-> B, records_per_buffer |-> R,
      samples_per_record |-> S, sample_rate |-> 4, demod_frq |-> f,
      numbered |-> nb] :
        B \in 1..MaxBuffers, R \in 1..MaxRecords, S \in 1..MaxSamples,
        f \in (IF v \in DemodVariants THEN DemodFrqs(4) ELSE {4}),
        nb \in Numberings(v)}

\* the buffers the driver may deliver: of the right size, or one element off
Deliveries ==
    LET n == Prod(buffer_shape)
    IN {RawBuffer(pat, m, ctl.nbits) : pat \in Patterns, m \in {n - 1, n, n + 1}}

Next ==
    \/ \E v \in Variants, bits \in CardBits, model \in CardModels :
          Construct(v, bits, model)
    \/ \E b \in BOOLEAN : SetTriggerFunc(b)
    \/ \E p \in AcquisitionParams(ctl.variant) : phase = "idle" /\ PreStartCapture(p)
    \/ PreAcquire
    \/ \E buf \in Deliveries : HandleBuffer(buf)
    \/ PostAcquire

Spec == Init /\ [][Next]_vars

(***************************************************************************)
(* SpecOvf: the buffer-averaging controllers over long acquisitions of     *)
(* one record of one sample, every raw sample at its largest value.        *)
(***************************************************************************)
OvfBufferCounts == {1, 2, MaxOvfBuffers - 1, MaxOvfBuffers}

OvfParams ==
    {[DefaultParams EXCEPT !.buffers_per_acquisition = B] : B \in OvfBufferCounts}

NextOvf ==
    \/ \E v \in AvgBufVariants, bits \in SupportedBits : Construct(v, bits, "ATS9360")
    \/ \E p \in OvfParams : PreStartCapture(p)
    \/ PreAcquire
    \/ HandleBuffer(RawBuffer("max", Prod(buffer_shape), ctl.nbits))
    \/ PostAcquire

SpecOvf == Init /\ [][NextOvf]_vars

(***************************************************************************)
(* SpecKwargs: acq_time, time2samples and update_acquisitionkwargs on a    *)
(* constructed controller.                                                 *)
(***************************************************************************)
KwargsRates == {1, 50, 100, 128}
AcqTimes == {None, 0, 5, MaxTime}
KwargsChoices ==
    [samples_per_record : {None, 128, 1000}, records_per_buffer : {None, 10}]

InitKwargs ==
    /\ phase = "idle"
    /\ ctl = DefaultCtl
    /\ params \in {[DefaultParams EXCEPT !.sample_rate = r] : r \in KwargsRates}
    /\ buffer_shape = <<>>
    /\ demod = [period |-> 0, demod_samples |-> 0]
    /\ data = NoArray
    /\ result = NoResult
    /\ trigger_active = FALSE
    /\ events = <<>>
    /\ delivered = <<>>
    /\ acq_time = None
    /\ acquisitionkwargs = NoKwargs
    /\ last_update = NoUpdate
    /\ t2s_call = NoCall
    /\ rerun = FALSE

\* acq_time(t)
SetAcqTime(t) ==
    /\ phase = "idle"
    /\ acq_time # t
    /\ acq_time' = t
    /\ UNCHANGED <<phase, ctl, params, buffer_shape, demod, data, result,
                   trigger_active, events, delivered, acquisitionkwargs,
                   last_update, t2s_call, rerun>>

\* time2samples(t)
CallTime2Samples(t) ==
    /\ phase = "idle"
    /\ t2s_call' = [called |-> TRUE, t |-> t,
                    nsamples |-> time2samples(t, params.sample_rate)]
    /\ UNCHANGED <<phase, ctl, params, buffer_shape, demod, data, result,
                   trigger_active, events, delivered, acq_time,
                   acquisitionkwargs, last_update, rerun>>

\* update_acquisitionkwargs(**kw)
UpdateAcquisitionKwargs(kw) ==
    /\ phase = "idle"
    /\ acquisitionkwargs' =
           UpdateKwargsOp(acquisitionkwargs, acq_time, params.sample_rate, kw)
    /\ last_update' = [called |-> TRUE, kw |-> kw, acq_time |-> acq_time]
    /\ UNCHANGED <<phase, ctl, params, buffer_shape, demod, data, result,
                   trigger_active, events, delivered, acq_time, t2s_call, rerun>>

NextKwargs ==
    \/ \E t \in AcqTimes : SetAcqTime(t)
    \/ \E kw \in KwargsChoices : UpdateAcquisitionKwargs(kw)

SpecKwargs == InitKwargs /\ [][NextKwargs]_vars

(***************************************************************************)
(* SpecT2S: time2samples called for every duration up to MaxTime.          *)
(***************************************************************************)
NextT2S == \E t \in 0..MaxTime : CallTime2Samples(t)

SpecT2S == InitKwargs /\ [][NextT2S]_vars

(***************************************************************************)
(* SpecGeom: every controller under each value of _buffer_order, known or  *)
(* not, with one buffer of distinct samples.                               *)
(***************************************************************************)
GeomOrders == KnownOrders \cup {"bsrc"}

GeomParams ==
    {[DefaultParams EXCEPT !.records_per_buffer = R, !.samples_per_record = S] :
        R \in 1..MaxRecords, S \in 1..MaxSamples}

NextGeom ==
    \/ \E v \in Variants, bits \in SupportedBits, model \in CardModels :
          Construct(v, bits, model)
    \/ \E o \in GeomOrders : SetBufferOrder(o)
    \/ \E p \in GeomParams : phase = "idle" /\ PreStartCapture(p)
    \/ PreAcquire
    \/ HandleBuffer(RawBuffer("ramp", Prod(buffer_shape), ctl.nbits))
    \/ PostAcquire

SpecGeom == Init /\ [][NextGeom]_vars

(***************************************************************************)
(* SpecRepeat: two acquisitions back to back on one controller, the user   *)
(* setting or clearing do_allocate_data before either.                     *)
(***************************************************************************)
RepeatParams(v) ==
    {[DefaultParams EXCEPT !.buffers_per_acquisition = B,
                           !.records_per_buffer = R, !.numbered = nb] :
        B \in {1, 2}, R \in {1, 2}, nb \in Numberings(v)}

RepeatDeliveries ==
    {RawBuffer(pat, Prod(buffer_shape), ctl.nbits) : pat \in Patterns}

NextRepeat ==
    \/ \E v \in Variants, bits \in SupportedBits : Construct(v, bits, "ATS9360")
    \/ \E b \in BOOLEAN : SetDoAllocateData(b)
    \/ \E p \in RepeatParams(ctl.variant) : PreStartCapture(p)
    \/ PreAcquire
    \/ \E buf \in RepeatDeliveries : HandleBuffer(buf)
    \/ PostAcquire

SpecRepeat == Init /\ [][NextRepeat]_vars

(***************************************************************************)
(* Properties.                                                             *)
(***************************************************************************)
MaxRaw == 2 ^ RawWidth(ctl.nbits) - 1

AllMax(buf) == \A i \in 1..Len(buf) : buf[i] = MaxRaw

Started == phase \in {"configured", "acquiring", "done", "failed"}

\* post_acquire was called in the current acquisition
Finalized == Len(events) > 0 /\ events[Len(events)] = "finalize"

\* every buffer of the acquisition was delivered and post_acquire returned
Complete == phase = "done" /\ Len(delivered) = params.buffers_per_acquisition

\* C1: in the buffer-averaging variants, after k callbacks whose raw samples
\* all have the largest value of the raw dtype, every accumulator element is
\* the exact integer sum k * max: the sum never wraps.
C1_AccumulatorNeverOverflows ==
    (/\ Started
     /\ ctl.variant \in AvgBufVariants
     /\ \A b \in 1..Len(delivered) : AllMax(delivered[b]))
    => \A i \in 1..Len(data.flat) : data.flat[i] = Len(delivered) * MaxRaw

\* C2: in the variants that do not demodulate, every element post_acquire
\* returns lies in [-0.5, 0.5).
C2_OutputInHalfOpenRange ==
    (phase = "done" /\ ctl.variant \in {"Raw", "AvgBuf", "AvgRec"})
    => \A i \in 1..Len(result.flat) :
          /\ 0 - result.den <= 2 * result.flat[i]
          /\ 2 * result.flat[i] < result.den

\* the length the dimension called name denotes
AxisLength(name) ==
    CASE name = "buffers" -> params.buffers_per_acquisition
      [] name = "records" -> params.records_per_buffer
      [] name = "samples" -> params.samples_per_record
      [] name = "IF_periods" -> DemodSamples(params)
      [] OTHER -> number_of_channels

\* C3: after a complete acquisition the array post_acquire returns has the
\* shape data_shape() reports, as many axes as data_dims() names, and every
\* axis as long as the quantity its name denotes.
C3_ResultShapeMatchesDataShape ==
    Complete =>
        /\ result.shape = DataShape(ctl.variant, params)
        /\ Len(result.shape) = Len(DataDims(ctl.variant))
        /\ \A ax \in 1..Len(result.shape) :
              result.shape[ax] = AxisLength(DataDims(ctl.variant)[ax])

\* the smallest multiple of 128 that is at least x
Ceil128(x) ==
    CHOOSE m \in {128 * k : k \in 0..((x \div 128) + 1)} : m >= x /\ m - 128 < x

\* C4: time2samples(t) is max(384, smallest multiple of 128 >= t * rate): a
\* multiple of 128, lasting at least t, and never below its value at an
\* earlier t.
C4_Time2SamplesRoundsUp ==
    t2s_call.called =>
        LET ideal == t2s_call.t * params.sample_rate
        IN /\ t2s_call.nsamples = Max(384, Ceil128(ideal))
           /\ t2s_call.nsamples % 128 = 0
           /\ t2s_call.nsamples >= ideal
           /\ \A t \in 0..t2s_call.t :
                 time2samples(t, params.sample_rate) <= t2s_call.nsamples

\* a duration whose sample count lies strictly between two multiples of 128,
\* above the minimum
C4_Witness ==
    /\ t2s_call.called
    /\ (t2s_call.t * params.sample_rate) % 128 # 0
    /\ t2s_call.nsamples > 384

\* C5: a handle_buffer call with a raw buffer of another size than
\* records * samples * channels raises and leaves the accumulator as it was.
C5_BadBufferLeavesAccumulator ==
    [][\A buf \in Deliveries :
          (HandleBuffer(buf) /\ Len(buf) # Prod(buffer_shape))
          => (phase' = "failed" /\ data' = data /\ delivered' = delivered)]_vars

\* a buffer of the wrong size arrived after one was accumulated
C5_Witness ==
    /\ phase = "failed"
    /\ events[Len(events)] = "ValueError"
    /\ Len(delivered) > 0
    /\ \E i \in 1..Len(data.flat) : data.flat[i] # 0

Count(e) == Cardinality({i \in 1..Len(events) : events[i] = e})

TriggerCallsInOrder ==
    /\ ~ctl.trigger_func => (Count("trigger_on") = 0 /\ Count("trigger_off") = 0)
    /\ (ctl.trigger_func /\ phase = "configured") => events = <<>>
    /\ (ctl.trigger_func /\ phase \in {"acquiring", "done", "failed"})
          => (events[1] = "trigger_on" /\ Count("trigger_on") = 1)
    /\ (ctl.trigger_func /\ Finalized)
          => (events[Len(events) - 1] = "trigger_off" /\ Count("trigger_off") = 1)
    /\ ~Finalized => Count("trigger_off") = 0

\* C6: with a trigger_func, every acquisition calls trigger_func(True) once,
\* before the first buffer, and trigger_func(False) once, after the last
\* buffer and before the result is normalised, which leaves the trigger
\* inactive once post_acquire has run; without a trigger_func no call is
\* made.
C6_TriggerBracketsAcquisition ==
    /\ TriggerCallsInOrder
    /\ (ctl.trigger_func /\ phase = "acquiring") => trigger_active
    /\ Finalized => ~trigger_active
    /\ ~ctl.trigger_func => ~trigger_active

\* an acquisition with a trigger and at least one buffer ran to its end
C6_Witness ==
    /\ ctl.trigger_func
    /\ phase = "done"
    /\ Count("buffer") > 0
    /\ ~trigger_active

\* what DemodCtl returns for the raw buffers bufs, delivered in order
RECURSIVE DemodAccumulate(_, _, _, _)
DemodAccumulate(c, d, bufs, b) ==
    IF b > Len(bufs) THEN d
    ELSE DemodAccumulate(c, HandleBufferOp(c, buffer_shape, d, bufs[b], b - 1).data,
                         bufs, b + 1)

DemodPathResult ==
    LET c == [ctl EXCEPT !.variant = "Demod", !.average_buffers = FALSE,
                         !.datawidth = DataWidth("Demod", ctl.nbits)]
        d0 == Zeros(AccumulatorShape("Demod", params))
    IN PostAcquireOp(c, params, demod, DemodAccumulate(c, d0, delivered, 1))

\* C7: for the same buffers the AvgDemod result equals the mean over the
\* buffers axis of the Demod result.
C7_AvgDemodIsMeanOfDemod ==
    (Complete /\ ctl.variant = "AvgDemod")
    => LET dr == DemodPathResult
           B == params.buffers_per_acquisition
           n == Len(result.flat)
       IN /\ dr.status = "ok"
          /\ dr.den = result.den
          /\ \A i \in 1..n :
                /\ B * result.flat[i]
                      = SumFromTo([b \in 1..B |-> dr.flat[(b - 1) * n + i]], 1, B)
                /\ B * result.imag[i]
                      = SumFromTo([b \in 1..B |-> dr.imag[(b - 1) * n + i]], 1, B)

\* C8: with period > samples_per_record (demod_samples = 0) post_acquire of
\* a demodulating variant returns a result whose IF_periods axis is empty.
C8_DegenerateDemodReturnsEmpty ==
    (ctl.variant \in DemodVariants /\ Finalized /\ demod.demod_samples = 0)
    => /\ result.status = "ok"
       /\ Prod(result.shape) = 0

\* C9: a card reporting a bit depth other than 8 or 12 makes the constructor
\* raise, so that no such controller is ever used; 8 and 12 construct.
C9_UnsupportedBitsFailAtConstruction ==
    /\ phase = "ctor_failed" =>
          /\ ctl.nbits \notin SupportedBits
          /\ buffer_shape = <<>> /\ data = NoArray /\ events = <<>>
          /\ result = NoResult
          /\ ~ENABLED Next
    /\ phase \notin {"none", "ctor_failed"} => ctl.nbits \in SupportedBits

C9_Witness == phase = "ctor_failed" /\ ctl.nbits = 10

\* C10: the samples_per_record the latest update_acquisitionkwargs call
\* left in acquisitionkwargs is the one the call passed, or else
\* time2samples(acq_time) when acq_time was set.
C10_StoredSamplesPerRecord ==
    last_update.called =>
        /\ last_update.kw.samples_per_record # None
              => acquisitionkwargs.samples_per_record
                    = last_update.kw.samples_per_record
        /\ (last_update.kw.samples_per_record = None /\ last_update.acq_time # None)
              => acquisitionkwargs.samples_per_record
                    = time2samples(last_update.acq_time, params.sample_rate)

\* element (r, s, c) of the canonical view of the raw buffer buf
CanonicalElement(buf, r, s, c) ==
    LET R == params.records_per_buffer
        S == params.samples_per_record
        C == number_of_channels
    IN IF ctl.buffer_order = "brsc"
       THEN buf[(r * S + s) * C + c + 1]
       ELSE buf[(c * R + r) * S + s + 1]

ViewIsCanonical(buf) ==
    LET R == params.records_per_buffer
        S == params.samples_per_record
        C == number_of_channels
        view == LogicalView(buf, ctl.buffer_order, buffer_shape)
    IN /\ view.shape = <<R, S, C>>
       /\ \A r \in 0..(R - 1), s \in 0..(S - 1), c \in 0..(C - 1) :
             view.flat[(r * S + s) * C + c + 1] = CanonicalElement(buf, r, s, c)

\* C11: for 'brsc' and 'bcrs' the physical shape has R*S*C elements and the
\* view handed to process_buffer is the (records, samples, channels) array
\* with view[r][s][c] = flat[(r*S + s)*C + c] resp. flat[(c*R + r)*S + s]
\* (RawAcqCtl stores that view as slot b); under any other ordering
\* pre_start_capture raises and the acquisition never starts.
C11_LogicalViewIsCanonical ==
    LET R == params.records_per_buffer
        S == params.samples_per_record
        C == number_of_channels
    IN /\ ctl.buffer_order \notin KnownOrders
             => /\ phase \in {"idle", "failed"}
                /\ phase = "failed"
                      => (events = <<"ValueError">> /\ buffer_shape = <<>>
                          /\ data = NoArray)
       /\ phase \in {"configured", "acquiring", "done"}
             => /\ ctl.buffer_order \in KnownOrders
                /\ Prod(buffer_shape) = R * S * C
                /\ \A b \in 1..Len(delivered) : ViewIsCanonical(delivered[b])
                /\ ctl.variant = "Raw"
                      => \A b \in 1..Len(delivered) :
                            \A r \in 0..(R - 1), s \in 0..(S - 1), c \in 0..(C - 1) :
                               data.flat[(((b - 1) * R + r) * S + s) * C + c + 1]
                                  = CanonicalElement(delivered[b], r, s, c)

\* a channel-major buffer of several records and samples was stored
C11_Witness ==
    /\ phase = "done"
    /\ ctl.variant = "Raw"
    /\ ctl.buffer_order = "bcrs"
    /\ params.records_per_buffer > 1
    /\ params.samples_per_record > 1
    /\ Len(delivered) = 1

\* pre_start_capture raised on an ordering it does not know
C11_UnknownOrderRaised ==
    phase = "failed" /\ ctl.buffer_order \notin KnownOrders

\* the variants that keep one accumulator slot per buffer
PerBufferVariants == Variants \ AvgBufVariants

\* slot b (counted from 1) of the accumulator d
Slot(d, b) ==
    LET n == Prod(d.shape) \div d.shape[1]
    IN [i \in 1..n |-> d.flat[(b - 1) * n + i]]

\* what handle_buffer stores for the buffer buf alone: slot 0 of a fresh
\* one-slot accumulator after handle_buffer(buf, 0)
SoloSlot(buf) ==
    LET one == [params EXCEPT !.buffers_per_acquisition = 1]
        d0 == Zeros(AccumulatorShape(ctl.variant, one))
    IN HandleBufferOp(ctl, buffer_shape, d0, buf, 0).data.flat

PerBufferCall(buf) ==
    /\ HandleBuffer(buf)
    /\ ctl.variant \in PerBufferVariants
    /\ params.numbered
    /\ phase' = "acquiring"

SlotsHoldTheirBuffers ==
    (/\ phase \in {"acquiring", "done", "failed"}
     /\ ctl.variant \in PerBufferVariants
     /\ params.numbered
     /\ data # NoArray)
    => LET R == params.records_per_buffer
           S == params.samples_per_record
           C == number_of_channels
       IN \A b \in 1..Len(delivered) :
             /\ Slot(data, b) = SoloSlot(delivered[b])
             /\ ctl.variant \in {"Raw", "Demod"}
                   => \A r \in 0..(R - 1), s \in 0..(S - 1), c \in 0..(C - 1) :
                         Slot(data, b)[(r * S + s) * C + c + 1]
                            = CanonicalElement(delivered[b], r, s, c)

RecordSum(buf, s, c) ==
    SumFromTo([r \in 0..(params.records_per_buffer - 1) |->
                  CanonicalElement(buf, r, s, c)],
              0, params.records_per_buffer - 1)

\* the element at (s, c) of slot b (counted from 1) of a (buffers, samples,
\* channels) accumulator
StoredMean(b, s, c) ==
    data.flat[((b - 1) * params.samples_per_record + s) * number_of_channels + c + 1]

\* C13: in the record-averaging variants the value stored in slot b at
\* (s, c) is the arithmetic mean over the records of the samples at (s, c),
\* the sum divided by records_per_buffer.
C13_StoredRecordMean ==
    (/\ phase \in {"acquiring", "done"}
     /\ ctl.variant \in AvgRecVariants
     /\ params.numbered)
    => \A b \in 1..Len(delivered) :
          \A s \in 0..(params.samples_per_record - 1),
             c \in 0..(number_of_channels - 1) :
                params.records_per_buffer * StoredMean(b, s, c)
                   = RecordSum(delivered[b], s, c)

\* the accumulator after handle_buffer was called on d for bufs[b], bufs[b+1],
\* ... in order, with or without buffer numbers
RECURSIVE Replay(_, _, _, _, _)
Replay(c, d, bufs, b, numbered) ==
    IF b > Len(bufs) THEN d
    ELSE Replay(c,
                HandleBufferOp(c, buffer_shape, d, bufs[b],
                               IF numbered THEN b - 1 ELSE None).data,
                bufs, b + 1, numbered)

\* what post_acquire returns when the buffers delivered in this acquisition
\* are accumulated from zeros
ResultOfThisAcquisition ==
    PostAcquireOp(ctl, params, demod,
                  Replay(ctl, Zeros(AccumulatorShape(ctl.variant, params)),
                         delivered, 1, params.numbered))

FirstCallbackPending == phase = "acquiring" /\ delivered = <<>>

\* pre_start_capture of this controller allocates: allocate_data is switched
\* on, or the variant's own pre_start_capture allocates
Allocates == ctl.do_allocate_data \/ ctl.variant \in DemodVariants

\* C14 as stated: in every acquisition of a controller, whatever
\* do_allocate_data is, the accumulator is all zeros when the first buffer
\* callback arrives and the result post_acquire returns is the one of the
\* buffers of this acquisition alone.
C14_FreshAccumulatorAlways ==
    /\ [](FirstCallbackPending
             => data = Zeros(AccumulatorShape(ctl.variant, params)))
    /\ [][(PostAcquire /\ phase' = "done")
             => result' = ResultOfThisAcquisition]_vars

\* C14, amended: the same, for the controllers whose pre_start_capture
\* allocates (do_allocate_data set, or a demodulating variant); the others
\* start the acquisition on the self.data they had.
C14_FreshAccumulatorWhenAllocating ==
    /\ []((FirstCallbackPending /\ Allocates)
             => data = Zeros(AccumulatorShape(ctl.variant, params)))
    /\ []((FirstCallbackPending /\ ~Allocates /\ ~rerun) => data = NoArray)
    /\ [][(PostAcquire /\ phase' = "done" /\ Allocates)
             => result' = ResultOfThisAcquisition]_vars
    /\ [][(\E p \in RepeatParams(ctl.variant) : PreStartCapture(p)) /\ ~Allocates
             => data' = data]_vars

\* a second acquisition of a buffer-averaging controller ran to its end on
\* an accumulator allocated anew
C14_Witness ==
    /\ rerun
    /\ ctl.do_allocate_data
    /\ ctl.variant = "AvgBuf"
    /\ phase = "done"
    /\ Len(delivered) = 2
    /\ data = Replay(ctl, Zeros(AccumulatorShape(ctl.variant, params)),
                     delivered, 1, params.numbered)
    /\ \E i \in 1..Len(data.flat) : data.flat[i] # 0
====
